---- MODULE Spec2Model ----
(***************************************************************************)
(* Email-whitelist approval workflow of LibreChat                          *)
(* (api/server/services/emailWhitelist.js over the EmailWhitelist          *)
(* collection), as a state machine.  Every service call is an async        *)
(* function: the code between two awaits runs atomically, and the calls    *)
(* of different requests interleave at their awaits.  One action models    *)
(* one such atomic segment together with the store operation it awaits.    *)
(*                                                                         *)
(* Spec is the workflow behind its HTTP routes (submit, review, delete,    *)
(* list, the gate isEmailWhitelisted).  ListSpec runs the list endpoint    *)
(* over collections of up to MaxStored entries.  GateSpec is the           *)
(* registration gate validateRegistration.  ActivationSpec is the          *)
(* invitation of a user and the activation of the account with the token   *)
(* (checkActivationToken, setPasswordController) over the Token and User   *)
(* collections.  SubmitSpec is the public submit endpoint over stores with *)
(* and without an account for the address, SocialSpec the social-login     *)
(* gate checkEmailWhitelisted.  LoadingSpec is the client hook             *)
(* useMCPLoading with its timers.                                          *)
(***************************************************************************)
EXTENDS Integers, Sequences, FiniteSets, TLC

(* ---------------------------- bounds ----------------------------------- *)
MaxTime == 2
MaxIds == 2
MaxCalls == 3
\* The largest collection the list endpoint is run against.
MaxStored == 101
\* The calls made to the loading hook, and how long the clock runs, in steps
\* of the shorter of the hook's two delays.
MaxHookCalls == 3
MaxTicks == 22

(* ------------------------ program constants ---------------------------- *)
NullDate == 0
ReasonMaxLen == 500
NotesMaxLen == 1000
\* Math.min(parseInt(limit), 100) and the defaults of page and limit.
PageSizeCap == 100
DefaultPage == 1
DefaultLimit == 20
\* useMCPLoading: the delays of the two setTimeout calls, in milliseconds.
TimeoutMs == 60000
RemoveMs == 3000

(* ------------------------------ inputs --------------------------------- *)
\* The requests in flight: two HTTP requests being served at once.
Procs == {"r1", "r2"}

\* Characters are their code points: a@x.c, "A@X.C " (the same address in
\* another spelling) and the empty string.
RawEmails ==
  { <<97, 64, 120, 46, 99>>,
    <<65, 64, 88, 46, 67, 32>>,
    << >> }

\* Free text is represented by its length.
Reasons == {0, 6, 501}
NotesIn == {0, 5, 1001}
Admins == {"admin1", "admin2"}
NoAdmin == "null"
Times == 1..MaxTime
Ids == 1..MaxIds
\* Request ids a caller can present: those the store assigns and one it never
\* assigns.
UnknownId == 0
RequestIds == Ids \cup {UnknownId}

\* req.user.role of an authenticated caller.
Roles == {"ADMIN", "USER"}

\* The emails of request bodies: those above and one that has no '@', ax.c
BodyEmails == RawEmails \cup { <<97, 120, 46, 99>> }

\* A query parameter that is absent from the request.
Undefined == <<-1>>
\* ?limit= : absent, "200", "100", "2", "0", "-200", "abc"
LimitParams ==
  { Undefined, <<50, 48, 48>>, <<49, 48, 48>>, <<50>>, <<48>>,
    <<45, 50, 48, 48>>, <<97, 98, 99>> }
\* ?page= : absent, "2", "0"
PageParams == { Undefined, <<50>>, <<48>> }
\* ?status= : absent (""), a status, or another word.
StatusParams == {"", "pending", "approved", "all"}

\* process.env.PRIVATE_BETA_MODE and process.env.ALLOW_REGISTRATION: unset,
\* "true", " True", "false", "1"
EnvValues ==
  { Undefined, <<116, 114, 117, 101>>, <<32, 84, 114, 117, 101>>,
    <<102, 97, 108, 115, 101>>, <<49>> }
NoEnv == [PRIVATE_BETA_MODE |-> Undefined, ALLOW_REGISTRATION |-> Undefined]

\* Invitation tokens are numbered; a request without a token carries NoToken.
NoToken == 0
PresentedTokens == 0..MaxCalls
\* req.body.email of POST /api/admin/invite: a@x.c or missing.
InviteEmails == { <<97, 64, 120, 46, 99>>, << >> }
\* req.body.password by its length: missing, too short, and two that pass.
Passwords == {0, 7, 8, 9}
MinPasswordLength == 8

(* ----------------------------- messages -------------------------------- *)
MsgInvalidEmail == "Invalid email address"
MsgAlreadyApproved == "Email is already approved for registration"
MsgAlreadyPending == "Email request is already pending approval"
MsgResubmitted == "Email whitelist request has been resubmitted for review"
MsgSubmitted == "Email whitelist request submitted successfully. You will be notified when approved."
MsgSubmitFailed == "Failed to submit whitelist request"
MsgInvalidAction == "Invalid action. Must be approve or reject"
MsgNotFound == "Whitelist request not found"
MsgAlreadyReviewed == "Request has already been reviewed"
MsgReviewFailed == "Failed to review whitelist request"
MsgApproved == "Email whitelist request approved successfully"
MsgApprovedInvited == "Email whitelist request approved successfully. Invitation email sent."
MsgRejected == "Email whitelist request rejected successfully"
MsgDeleted == "Email whitelist request deleted successfully"
MsgDeleteFailed == "Failed to delete whitelist request"
MsgAdminRequired == "Admin access required"
MsgEmailRequired == "Email address is required"
MsgEmailFormat == "Please enter a valid email address"
MsgListFailed == "Failed to fetch whitelist requests"
MsgInvitationOnly == "Registration is currently by invitation only. Please contact an administrator for access."
MsgRegistrationDisabled == "Registration is currently disabled. Please contact an administrator for access."
MsgInvalidToken == "Invalid or expired activation token"
MsgTokenExpired == "Activation token has expired. Please request a new invitation."
MsgActivated == "Account activated successfully"
MsgNone == ""
RedirectNotWhitelisted == "/login?error=email_not_whitelisted"

(* ------------------------ String.prototype ----------------------------- *)
WhiteSpace == {9, 10, 13, 32}

LowerChar(c) == IF c \in 65..90 THEN c + 32 ELSE c

ToLowerCase(s) == [i \in 1..Len(s) |-> LowerChar(s[i])]

RECURSIVE TrimStart(_)
TrimStart(s) ==
  IF s # << >> /\ Head(s) \in WhiteSpace THEN TrimStart(Tail(s)) ELSE s

RECURSIVE TrimEnd(_)
TrimEnd(s) ==
  IF s # << >> /\ s[Len(s)] \in WhiteSpace
    THEN TrimEnd(SubSeq(s, 1, Len(s) - 1))
    ELSE s

Trim(s) == TrimEnd(TrimStart(s))

\* email.toLowerCase().trim()
normalizedEmail(email) == Trim(ToLowerCase(email))

\* !email || typeof email !== 'string'
IsInvalidEmailArg(email) == email = << >>

\* /^[^\s@]+@[^\s@]+\.[^\s@]+$/.test(s): no white space, one '@' with text
\* before it, and after it a '.' with text on both sides.
EmailRegexTest(s) ==
  \E i \in 2..Len(s) :
    /\ s[i] = 64
    /\ \A j \in 1..Len(s) : s[j] \notin WhiteSpace /\ (s[j] = 64 => j = i)
    /\ \E k \in (i + 2)..(Len(s) - 1) : s[k] = 46

(* ------------------------------ Number --------------------------------- *)
\* A JavaScript number: an integer or NaN.
Num(v) == [nan |-> FALSE, v |-> v]
NaN == [nan |-> TRUE, v |-> 0]

\* The value of the leading decimal digits of s, acc being the value so far.
RECURSIVE ParseDigits(_, _)
ParseDigits(s, acc) ==
  IF s # << >> /\ Head(s) \in 48..57
    THEN ParseDigits(Tail(s), 10 * acc + (Head(s) - 48))
    ELSE acc

\* parseInt(s): leading white space is skipped, a sign is read, then decimal
\* digits up to the first other character; NaN when there is no digit.
parseInt(s) ==
  LET t == TrimStart(s)
      signed == t # << >> /\ Head(t) \in {43, 45}
      u == IF signed THEN Tail(t) ELSE t
  IN IF u = << >> \/ Head(u) \notin 48..57 THEN NaN
     ELSE IF signed /\ Head(t) = 45 THEN Num(0 - ParseDigits(u, 0))
     ELSE Num(ParseDigits(u, 0))

\* Math.min(a, b)
MathMin(a, b) ==
  IF a.nan \/ b.nan THEN NaN ELSE IF a.v <= b.v THEN a ELSE b

(* --------------------------- the collection ---------------------------- *)
Fields == {"email", "status", "requestedAt", "reviewedAt", "reviewedBy", "reason", "notes"}

\* new EmailWhitelist({email, reason, status: 'pending'}) with the schema's
\* defaults.
NewEntry(email, reason, t) ==
  [email |-> email, status |-> "pending", requestedAt |-> t,
   reviewedAt |-> NullDate, reviewedBy |-> NoAdmin, reason |-> reason,
   notes |-> 0]

\* The document of a call that holds none.
NoDoc == NewEntry(<< >>, 0, NullDate)

\* Variant: the schema has no maxlength.
ValidEntry_NoMaxLength(e) == TRUE

\* maxlength validators of the schema, run by save() on the paths it writes.
ValidEntry(e) == e.reason <= ReasonMaxLen /\ e.notes <= NotesMaxLen

\* EmailWhitelist: the collection, a function from _id to document.
\* nextId:         the next _id the collection hands out.
\* calls:          per request handler, the service call it is running: its
\*                 position, the documents it holds, and its result.
\* served:         the number of calls started so far.
\* Token:          the invitation tokens (the Token collection).
\* User:           the user accounts, by email.
VARIABLES EmailWhitelist, nextId, calls, served, Token, User

\* The client hook useMCPLoading:
\* loadingStates: the Map held in React state, tool key -> loading state.
\* timeoutRefs:   the Map held in the ref, tool key -> timer id.
\* timers:        the timers the hook has set that are still pending.
\* now:           Date.now(), in milliseconds.
\* hookCalls:     the calls made to the hook so far.
VARIABLES loadingStates, timeoutRefs, timers, now, hookCalls

hook == <<loadingStates, timeoutRefs, timers, now, hookCalls>>

vars == <<EmailWhitelist, nextId, calls, served, Token, User,
          loadingStates, timeoutRefs, timers, now, hookCalls>>

\* The hook as first rendered: useState(new Map()), useRef(new Map()).
HookInit ==
  /\ loadingStates = << >>
  /\ timeoutRefs = << >>
  /\ timers = {}
  /\ now = 0
  /\ hookCalls = 0

\* findOne({email})
FindByEmail(email) == {i \in DOMAIN EmailWhitelist : EmailWhitelist[i].email = email}

\* Variant: the collection has no unique index on email.
DuplicateKey_NoIndex(email) == FALSE

\* The unique index on email rejects a second document with the same value.
DuplicateKey(email) == FindByEmail(email) # {}

\* Paths a document's save() writes: those set to a value other than the one
\* loaded.
ModifiedPaths(loaded, doc) == {f \in Fields : loaded[f] # doc[f]}

\* updateOne({_id}, {$set: modified paths})
ApplySet(cur, doc, paths) ==
  [f \in Fields |-> IF f \in paths THEN doc[f] ELSE cur[f]]

(* ------------------------- tokens and users ---------------------------- *)
\* The digest of a token: only the digest is stored and looked up.
hashToken(token) == <<"sha256", token>>

\* A record of the Token collection; NoInvite stands for "no record".
TokenRecord(token, email, expiresAt) ==
  [token |-> hashToken(token), email |-> email, expiresAt |-> expiresAt]
NoInvite == TokenRecord(NoToken, << >>, NullDate)

\* Token.findOne(query) for the query {token: hash, email}.
findToken(hash, email) == {t \in Token : t.token = hash /\ t.email = email}

\* Token.deleteMany({token: hash}): the collection afterwards.
deleteTokens(hash) == {t \in Token : t.token # hash}

\* bcrypt.hashSync(password, salt): what is stored is a digest.
hashSync(password) == <<"bcrypt", password>>
NoPassword == <<"none", 0>>

\* isEnabled(value): a string that reads "true" once lowered and trimmed.
isEnabled(value) == Trim(ToLowerCase(value)) = <<116, 114, 117, 101>>

(* ------------------------------ calls ---------------------------------- *)
IdleCall ==
  [op |-> "none", pc |-> "idle", email |-> << >>, id |-> UnknownId,
   loaded |-> NoDoc, doc |-> NoDoc, sendInvitation |-> FALSE,
   invited |-> FALSE, tokenStored |-> FALSE, mailSent |-> FALSE,
   err |-> "none", success |-> FALSE, message |-> MsgNone,
   role |-> "none", http |-> 0, requests |-> << >>, total |-> 0,
   invite |-> NoInvite, env |-> NoEnv, next |-> FALSE,
   token |-> NoToken, password |-> 0, at |-> NullDate]

\* The call's result; its local documents go out of scope.
Return(c, ok, msg) ==
  [c EXCEPT !.pc = "done", !.success = ok, !.message = msg,
            !.loaded = NoDoc, !.doc = NoDoc, !.sendInvitation = FALSE]

\* The catch block of a service function: the error is logged and a failure
\* returned.
Throw(c, e, msg) == [Return(c, FALSE, msg) EXCEPT !.err = e]

Init ==
  /\ EmailWhitelist = << >>
  /\ nextId = 1
  /\ calls = [p \in Procs |-> IdleCall]
  /\ served = 0
  /\ Token = {}
  /\ User = << >>
  /\ HookInit

\* Variant: the routes are open to every authenticated caller.
requireAdmin_Open(role) == TRUE

\* part_006 line 19: req.user?.role !== SystemRoles.ADMIN answers 403.
requireAdmin(role) == role = "ADMIN"

\* part_006 line 20: the response of requireAdmin; the handler is not run.
Forbidden(op, role) ==
  [Return([IdleCall EXCEPT !.op = op, !.role = role], FALSE, MsgAdminRequired)
     EXCEPT !.http = 403]

\* The status code a route answers with: the one a middleware or the route's
\* own checks sent, or else the one the route derives from the service's
\* result (200 on success; 400 from POST and PUT, 404 from DELETE).
RouteStatus(c) ==
  IF c.http # 0 THEN c.http
  ELSE IF c.success THEN 200
  ELSE IF c.op = "delete" THEN 404
  ELSE 400

\* A request handler is free to serve a new call.
Free(p) == calls[p].pc = "idle" /\ served < MaxCalls

\* Documents constructed by calls in flight and not yet inserted.
Constructed == Cardinality({q \in Procs : calls[q].pc = "insert"})

\* Timestamps taken so far that are still held somewhere.
TimesTaken ==
  UNION { {EmailWhitelist[i].requestedAt, EmailWhitelist[i].reviewedAt} : i \in DOMAIN EmailWhitelist }
    \cup UNION { {calls[q].doc.requestedAt, calls[q].doc.reviewedAt} : q \in Procs }

\* new Date(): the clock never runs backwards.
Clock == {t \in Times : \A u \in TimesTaken : u <= t}

(* ------------------------ isEmailWhitelisted --------------------------- *)
\* Variant: any entry for the address passes, whatever its status.
IsEmailWhitelistedResult_AnyStatus(email, fault) ==
  IF IsInvalidEmailArg(email) THEN FALSE
  ELSE IF fault THEN FALSE
  ELSE \E i \in DOMAIN EmailWhitelist : EmailWhitelist[i].email = normalizedEmail(email)

\* Variant: the catch block lets the caller through.
IsEmailWhitelistedResult_FailOpen(email, fault) ==
  IF IsInvalidEmailArg(email) THEN FALSE
  ELSE IF fault THEN TRUE
  ELSE \E i \in DOMAIN EmailWhitelist :
         EmailWhitelist[i].email = normalizedEmail(email) /\ EmailWhitelist[i].status = "approved"

\* Lines 12-27: false for a missing argument, false when findOne throws,
\* otherwise whether findOne({email, status: 'approved'}) returned a document.
IsEmailWhitelistedResult(email, fault) ==
  IF IsInvalidEmailArg(email) THEN FALSE
  ELSE IF fault THEN FALSE
  ELSE \E i \in DOMAIN EmailWhitelist :
         EmailWhitelist[i].email = normalizedEmail(email) /\ EmailWhitelist[i].status = "approved"

isEmailWhitelisted(p) ==
  /\ Free(p)
  /\ \E email \in RawEmails :
       \E fault \in (IF IsInvalidEmailArg(email) THEN {FALSE} ELSE BOOLEAN) :
         LET c == [IdleCall EXCEPT !.op = "check", !.email = email]
             r == IsEmailWhitelistedResult(email, fault)
         IN calls' = [calls EXCEPT ![p] =
              IF fault
                THEN [Return(c, r, MsgNone) EXCEPT !.err = "StoreError"]
                ELSE Return(c, r, MsgNone)]
  /\ UNCHANGED <<EmailWhitelist, nextId>>
  /\ served' = served + 1
  /\ UNCHANGED <<Token, User>>
  /\ UNCHANGED hook

(* ----------------------- requestEmailWhitelist ------------------------- *)
\* Variant: an approved entry is reopened like a rejected one.
SubmitExisting_ReopenApproved(c, i, reason, t) ==
  LET e == EmailWhitelist[i]
      d == [c EXCEPT !.id = i]
  IN
    IF e.status = "pending" THEN Return(d, FALSE, MsgAlreadyPending)
    ELSE [d EXCEPT !.pc = "resave", !.loaded = e,
                   !.doc = [e EXCEPT !.status = "pending",
                                     !.requestedAt = t,
                                     !.reason = reason,
                                     !.reviewedAt = NullDate,
                                     !.reviewedBy = NoAdmin,
                                     !.notes = 0]]

\* Variant: the resubmission keeps the admin's notes.
SubmitExisting_KeepNotes(c, i, reason, t) ==
  LET e == EmailWhitelist[i]
      d == [c EXCEPT !.id = i]
  IN
    IF e.status = "approved" THEN Return(d, FALSE, MsgAlreadyApproved)
    ELSE IF e.status = "pending" THEN Return(d, FALSE, MsgAlreadyPending)
    ELSE [d EXCEPT !.pc = "resave", !.loaded = e,
                   !.doc = [e EXCEPT !.status = "pending",
                                     !.requestedAt = t,
                                     !.reason = reason,
                                     !.reviewedAt = NullDate,
                                     !.reviewedBy = NoAdmin]]

\* Lines 47-67: the branch on the entry findOne returned.
SubmitExisting(c, i, reason, t) ==
  LET e == EmailWhitelist[i]
      d == [c EXCEPT !.id = i]
  IN
    IF e.status = "approved" THEN Return(d, FALSE, MsgAlreadyApproved)
    ELSE IF e.status = "pending" THEN Return(d, FALSE, MsgAlreadyPending)
    ELSE [d EXCEPT !.pc = "resave", !.loaded = e,
                   !.doc = [e EXCEPT !.status = "pending",
                                     !.requestedAt = t,
                                     !.reason = reason,
                                     !.reviewedAt = NullDate,
                                     !.reviewedBy = NoAdmin,
                                     !.notes = 0]]

\* Lines 37-75: up to the save() the call awaits.
requestEmailWhitelist(p) ==
  /\ Free(p)
  /\ \E email \in RawEmails :
       LET c == [IdleCall EXCEPT !.op = "submit", !.email = email]
           found == FindByEmail(normalizedEmail(email))
       IN
         IF IsInvalidEmailArg(email)
           THEN calls' = [calls EXCEPT ![p] = Return(c, FALSE, MsgInvalidEmail)]
         ELSE
           \/ calls' = [calls EXCEPT ![p] = Throw(c, "StoreError", MsgSubmitFailed)]
           \/ /\ found # {}
              /\ \E reason \in Reasons, t \in Clock :
                   calls' = [calls EXCEPT ![p] =
                               SubmitExisting(c, CHOOSE i \in found : TRUE, reason, t)]
           \/ /\ found = {}
              /\ nextId + Constructed <= MaxIds
              /\ \E reason \in Reasons, t \in Clock :
                   calls' = [calls EXCEPT ![p] =
                     [c EXCEPT !.pc = "insert",
                               !.doc = NewEntry(normalizedEmail(email), reason, t)]]
  /\ UNCHANGED <<EmailWhitelist, nextId>>
  /\ served' = served + 1
  /\ UNCHANGED <<Token, User>>
  /\ UNCHANGED hook

\* Lines 77-85: whitelistRequest.save() of a new document.
requestEmailWhitelist_saveNew(p) ==
  /\ calls[p].op = "submit" /\ calls[p].pc = "insert"
  /\ \E fault \in BOOLEAN :
       LET c == calls[p] IN
         IF ~ValidEntry(c.doc)
           THEN /\ calls' = [calls EXCEPT ![p] = Throw(c, "ValidationError", MsgSubmitFailed)]
                /\ UNCHANGED <<EmailWhitelist, nextId>>
         ELSE IF fault
           THEN /\ calls' = [calls EXCEPT ![p] = Throw(c, "StoreError", MsgSubmitFailed)]
                /\ UNCHANGED <<EmailWhitelist, nextId>>
         ELSE IF DuplicateKey(c.doc.email)
           THEN /\ calls' = [calls EXCEPT ![p] = Throw(c, "E11000", MsgSubmitFailed)]
                /\ UNCHANGED <<EmailWhitelist, nextId>>
         ELSE /\ EmailWhitelist' = EmailWhitelist @@ (nextId :> c.doc)
              /\ nextId' = nextId + 1
              /\ calls' = [calls EXCEPT ![p] =
                             Return([c EXCEPT !.id = nextId], TRUE, MsgSubmitted)]
  /\ UNCHANGED served
  /\ UNCHANGED <<Token, User>>
  /\ UNCHANGED hook

\* What save() of a loaded document leaves in the collection.
SaveLoaded(c) == ApplySet(EmailWhitelist[c.id], c.doc, ModifiedPaths(c.loaded, c.doc))

\* Lines 61-66: existingEntry.save() of a resubmission.
requestEmailWhitelist_saveExisting(p) ==
  /\ calls[p].op = "submit" /\ calls[p].pc = "resave"
  /\ \E fault \in BOOLEAN :
       LET c == calls[p] IN
         IF ~ValidEntry(c.doc)
           THEN /\ calls' = [calls EXCEPT ![p] = Throw(c, "ValidationError", MsgSubmitFailed)]
                /\ UNCHANGED EmailWhitelist
         ELSE IF fault
           THEN /\ calls' = [calls EXCEPT ![p] = Throw(c, "StoreError", MsgSubmitFailed)]
                /\ UNCHANGED EmailWhitelist
         ELSE IF c.id \notin DOMAIN EmailWhitelist
           THEN /\ calls' = [calls EXCEPT ![p] = Throw(c, "DocumentNotFoundError", MsgSubmitFailed)]
                /\ UNCHANGED EmailWhitelist
         ELSE /\ EmailWhitelist' = [EmailWhitelist EXCEPT ![c.id] = SaveLoaded(c)]
              /\ calls' = [calls EXCEPT ![p] = Return(c, TRUE, MsgResubmitted)]
  /\ UNCHANGED <<nextId, served>>
  /\ UNCHANGED <<Token, User>>
  /\ UNCHANGED hook

(* -------------------- reviewEmailWhitelistRequest ---------------------- *)
\* req.user._id of the request a handler serves.
adminUserId(p) == IF p = "r1" THEN "admin1" ELSE "admin2"

\* Variant: the review does not record the reviewer.
Reviewed_NoReviewer(e, action, admin, notes, t) ==
  [e EXCEPT !.status = IF action = "approve" THEN "approved" ELSE "rejected",
            !.reviewedAt = t,
            !.notes = notes]

\* Lines 153-156: the changes a review makes to the loaded document.
Reviewed(e, action, admin, notes, t) ==
  [e EXCEPT !.status = IF action = "approve" THEN "approved" ELSE "rejected",
            !.reviewedAt = t,
            !.reviewedBy = admin,
            !.notes = notes]

\* Variant: a request is reviewed whatever its status.
CanReview_Always(e) == TRUE

\* Line 149: only a pending request is reviewed.
CanReview(e) == e.status = "pending"

\* Variant: an unknown id is refused like an entry that was reviewed.
ReviewRefusal_Conflict(id) ==
  IF id \notin DOMAIN EmailWhitelist THEN MsgAlreadyReviewed
  ELSE IF ~CanReview(EmailWhitelist[id]) THEN MsgAlreadyReviewed
  ELSE MsgNone

\* Lines 141-151: the message a review is refused with, before anything is
\* changed, when findById returns nothing or the entry is not pending.
ReviewRefusal(id) ==
  IF id \notin DOMAIN EmailWhitelist THEN MsgNotFound
  ELSE IF ~CanReview(EmailWhitelist[id]) THEN MsgAlreadyReviewed
  ELSE MsgNone

\* PUT /whitelist-requests/:requestId: requireAdmin, then lines 139-156 of
\* the service, up to the save() the call awaits.
reviewEmailWhitelistRequest(p) ==
  /\ Free(p)
  /\ \E role \in Roles :
      IF ~requireAdmin(role)
      THEN calls' = [calls EXCEPT ![p] = Forbidden("review", role)]
      ELSE
       \E id \in RequestIds :
       LET c == [IdleCall EXCEPT !.op = "review", !.id = id, !.role = role] IN
         \/ calls' = [calls EXCEPT ![p] = Return(c, FALSE, MsgInvalidAction)]
         \/ calls' = [calls EXCEPT ![p] = Throw(c, "StoreError", MsgReviewFailed)]
         \/ /\ ReviewRefusal(id) # MsgNone
            /\ calls' = [calls EXCEPT ![p] = Return(c, FALSE, ReviewRefusal(id))]
         \/ /\ id \in DOMAIN EmailWhitelist
            /\ CanReview(EmailWhitelist[id])
            /\ \E action \in {"approve", "reject"}, notes \in NotesIn,
                  sendInv \in BOOLEAN, t \in Clock :
                 calls' = [calls EXCEPT ![p] =
                   [c EXCEPT !.pc = "save", !.loaded = EmailWhitelist[id],
                             !.sendInvitation = sendInv,
                             !.doc = Reviewed(EmailWhitelist[id], action, adminUserId(p), notes, t)]]
  /\ UNCHANGED <<EmailWhitelist, nextId>>
  /\ served' = served + 1
  /\ UNCHANGED <<Token, User>>
  /\ UNCHANGED hook

\* Line 176: the message of a successful review.
ReviewMessage(status, sendInv) ==
  IF status = "approved"
    THEN (IF sendInv THEN MsgApprovedInvited ELSE MsgApproved)
    ELSE MsgRejected

\* Variant: every review that asks for an invitation gets one.
ShouldInvite_AnyAction(status, sendInvitation, emailConfigured) ==
  sendInvitation /\ emailConfigured

\* Line 164: action === 'approve' && sendInvitation && checkEmailConfig()
ShouldInvite(status, sendInvitation, emailConfigured) ==
  status = "approved" /\ sendInvitation /\ emailConfigured

\* Lines 158-164: whitelistRequest.save(), then the decision to invite.
reviewEmailWhitelistRequest_save(p) ==
  /\ calls[p].op = "review" /\ calls[p].pc = "save"
  /\ \E fault \in BOOLEAN, emailConfigured \in BOOLEAN :
       LET c == calls[p] IN
         IF ~ValidEntry(c.doc)
           THEN /\ calls' = [calls EXCEPT ![p] = Throw(c, "ValidationError", MsgReviewFailed)]
                /\ UNCHANGED EmailWhitelist
         ELSE IF fault
           THEN /\ calls' = [calls EXCEPT ![p] = Throw(c, "StoreError", MsgReviewFailed)]
                /\ UNCHANGED EmailWhitelist
         ELSE IF c.id \notin DOMAIN EmailWhitelist
           THEN /\ calls' = [calls EXCEPT ![p] = Throw(c, "DocumentNotFoundError", MsgReviewFailed)]
                /\ UNCHANGED EmailWhitelist
         ELSE /\ EmailWhitelist' = [EmailWhitelist EXCEPT ![c.id] = SaveLoaded(c)]
              /\ calls' = [calls EXCEPT ![p] =
                   IF ShouldInvite(c.doc.status, c.sendInvitation, emailConfigured)
                     THEN [c EXCEPT !.pc = "invite"]
                     ELSE Return(c, TRUE, ReviewMessage(c.doc.status, c.sendInvitation))]
  /\ UNCHANGED <<nextId, served>>
  /\ UNCHANGED <<Token, User>>
  /\ UNCHANGED hook

\* Lines 165-178 with sendInvitationEmail and createInvite: createInvite
\* swallows a createToken failure and returns an object, the link is built
\* and the email sent all the same; a sendEmail failure is rethrown and
\* caught by the review, which still returns success.
\* Variant: a failed dispatch fails the review.
InviteResult_FailOnError(c, tokenStored, sent) ==
  IF sent /\ tokenStored
    THEN [Return(c, TRUE, ReviewMessage(c.doc.status, c.sendInvitation))
            EXCEPT !.invited = TRUE, !.tokenStored = TRUE, !.mailSent = TRUE]
    ELSE [Throw(c, "EmailError", MsgReviewFailed)
            EXCEPT !.invited = TRUE, !.tokenStored = tokenStored, !.mailSent = sent]

InviteResult(c, tokenStored, sent) ==
  [Return(c, TRUE, ReviewMessage(c.doc.status, c.sendInvitation))
     EXCEPT !.invited = TRUE,
            !.tokenStored = tokenStored,
            !.mailSent = sent,
            !.err = IF sent THEN "none" ELSE "EmailError"]

\* The token the link of the email carries is the one createInvite returned,
\* or no token when createInvite returned its error object; the record
\* expires after the time modelled.
sendInvitationEmail(p) ==
  /\ calls[p].op = "review" /\ calls[p].pc = "invite"
  /\ \E tokenStored \in BOOLEAN, sent \in BOOLEAN :
       LET token == Cardinality(Token) + 1 IN
       /\ calls' = [calls EXCEPT ![p] =
            [InviteResult(calls[p], tokenStored, sent)
               EXCEPT !.token = IF tokenStored THEN token ELSE NoToken]]
       /\ Token' = IF tokenStored
                     THEN Token \cup {TokenRecord(token, calls[p].doc.email, MaxTime)}
                     ELSE Token
  /\ UNCHANGED <<EmailWhitelist, nextId, served, User>>
  /\ UNCHANGED hook

(* -------------------- deleteEmailWhitelistRequest ---------------------- *)
\* Variant: an entry that was reviewed is kept.
FindByIdAndDelete_PendingOnly(id) ==
  IF EmailWhitelist[id].status = "pending"
    THEN [i \in DOMAIN EmailWhitelist \ {id} |-> EmailWhitelist[i]]
    ELSE EmailWhitelist

\* Line 192: the collection after findByIdAndDelete(id) found the document.
FindByIdAndDelete(id) ==
  [i \in DOMAIN EmailWhitelist \ {id} |-> EmailWhitelist[i]]

\* DELETE /whitelist-requests/:requestId: requireAdmin, then lines 191-204
\* of the service.
deleteEmailWhitelistRequest(p) ==
  /\ Free(p)
  /\ \E role \in Roles :
      IF ~requireAdmin(role)
      THEN /\ calls' = [calls EXCEPT ![p] = Forbidden("delete", role)]
           /\ UNCHANGED EmailWhitelist
      ELSE
       \E id \in RequestIds, fault \in BOOLEAN :
       LET c == [IdleCall EXCEPT !.op = "delete", !.id = id, !.role = role] IN
         IF fault
           THEN /\ calls' = [calls EXCEPT ![p] = Throw(c, "StoreError", MsgDeleteFailed)]
                /\ UNCHANGED EmailWhitelist
         ELSE IF id \notin DOMAIN EmailWhitelist
           THEN /\ calls' = [calls EXCEPT ![p] = Return(c, FALSE, MsgNotFound)]
                /\ UNCHANGED EmailWhitelist
         ELSE /\ EmailWhitelist' = FindByIdAndDelete(id)
              /\ calls' = [calls EXCEPT ![p] = Return(c, TRUE, MsgDeleted)]
  /\ UNCHANGED nextId
  /\ served' = served + 1
  /\ UNCHANGED <<Token, User>>
  /\ UNCHANGED hook

(* --------------------- getEmailWhitelistRequests ----------------------- *)
\* part_006 lines 82-88: the filters the route builds from req.query.
Filters(status, page, limit) ==
  [status |-> status,
   page |-> IF page = Undefined THEN Num(DefaultPage) ELSE parseInt(page),
   limit |-> MathMin(IF limit = Undefined THEN Num(DefaultLimit) ELSE parseInt(limit),
                     Num(PageSizeCap))]

\* The filters of all the requests the route is called with.
RouteFilters ==
  { Filters(status, page, limit) :
      status \in StatusParams, page \in PageParams, limit \in LimitParams }

\* Lines 105-107 and find(query): of a sequence of documents, those the
\* query matches; query.status is set only for one of the three statuses.
FindQuery(status, docs) ==
  SelectSeq(docs, LAMBDA i :
    status \in {"pending", "approved", "rejected"} => EmailWhitelist[i].status = status)

\* Variant: the sort is ascending.
SortsBefore_Ascending(i, j) ==
  \/ EmailWhitelist[i].requestedAt < EmailWhitelist[j].requestedAt
  \/ EmailWhitelist[i].requestedAt = EmailWhitelist[j].requestedAt /\ i < j

\* sort({requestedAt: -1}): document i comes before document j; documents
\* with equal requestedAt are taken in _id order.
SortsBefore(i, j) ==
  \/ EmailWhitelist[i].requestedAt > EmailWhitelist[j].requestedAt
  \/ EmailWhitelist[i].requestedAt = EmailWhitelist[j].requestedAt /\ i < j

\* The documents of S in sort order: each is paired with the number of
\* documents sorted before it (computed once), and the pairs are read off in
\* the order of that number.
SortDesc(S) ==
  CHOOSE sorted \in
    { SubSeq([k \in 1..Cardinality(S) |-> (CHOOSE r \in ranked : r[1] = k - 1)[2]],
             1, Cardinality(S)) :
      ranked \in { { <<Cardinality({j \in S : SortsBefore(j, i)}), i>> : i \in S } } } :
    TRUE

\* The server rejects a find command whose skip or limit is NaN or whose
\* skip is negative.
CommandRejected(skip, limit) == skip.nan \/ limit.nan \/ skip.v < 0

\* Lines 114-115, .skip(skip).limit(limit) as the server applies them: a
\* limit of 0 is no limit, a negative limit -n returns up to n documents.
SkipLimit(seq, skip, limit) ==
  LET n == IF limit.v = 0 THEN Len(seq)
           ELSE IF limit.v < 0 THEN 0 - limit.v
           ELSE limit.v
      to == IF skip.v + n < Len(seq) THEN skip.v + n ELSE Len(seq)
  IN SubSeq(seq, skip.v + 1, to)

\* Lines 101-125 of the service called with the route's filters, and the
\* route's answer: the page and the total, or 500 when the service rethrows.
\* sorted: the whole collection in the order of the sort, from which the
\* query selects.
ListResult(role, sorted, f) ==
  LET c == [IdleCall EXCEPT !.op = "list", !.role = role]
      skip == IF f.page.nan \/ f.limit.nan THEN NaN
              ELSE Num((f.page.v - 1) * f.limit.v)
      found == FindQuery(f.status, sorted)
  IN IF CommandRejected(skip, f.limit)
       THEN [Throw(c, "BadValue", MsgListFailed) EXCEPT !.http = 500]
     ELSE [Return(c, TRUE, MsgNone)
             EXCEPT !.requests = SkipLimit(found, skip, f.limit),
                    !.total = Len(found)]

\* GET /whitelist-requests: requireAdmin, then the handler with the query
\* parameters of the request, or with find or countDocuments throwing.
getEmailWhitelistRequests(p) ==
  /\ Free(p)
  /\ \E role \in Roles :
      IF ~requireAdmin(role)
      THEN calls' = [calls EXCEPT ![p] = Forbidden("list", role)]
      ELSE
       \E sorted \in {SortDesc(DOMAIN EmailWhitelist)} :
       \E r \in { ListResult(role, sorted, f) : f \in RouteFilters }
                \cup { [Throw([IdleCall EXCEPT !.op = "list", !.role = role],
                               "StoreError", MsgListFailed) EXCEPT !.http = 500] } :
         calls' = [calls EXCEPT ![p] = r]
  /\ UNCHANGED <<EmailWhitelist, nextId>>
  /\ served' = served + 1
  /\ UNCHANGED <<Token, User>>
  /\ UNCHANGED hook

(* ----------------------------- the routes ------------------------------ *)
\* Variant: the public endpoint tells the caller that the address has an
\* account.
RouteEmailError_KnownUser(email) ==
  IF email = << >> THEN MsgEmailRequired
  ELSE IF ~EmailRegexTest(email) THEN MsgEmailFormat
  ELSE IF email \in DOMAIN User THEN "User with this email already exists"
  ELSE MsgNone

\* part_006 lines 35-47: what the POST route answers, with status 400 and
\* without calling the service, for a body whose email is missing or does not
\* match the pattern.
RouteEmailError(email) ==
  IF email = << >> THEN MsgEmailRequired
  ELSE IF ~EmailRegexTest(email) THEN MsgEmailFormat
  ELSE MsgNone

postRequestWhitelist(p) ==
  /\ Free(p)
  /\ \E email \in BodyEmails :
       /\ RouteEmailError(email) # MsgNone
       /\ calls' = [calls EXCEPT ![p] =
            [Return([IdleCall EXCEPT !.op = "validate", !.email = email],
                    FALSE, RouteEmailError(email))
               EXCEPT !.http = 400]]
  /\ UNCHANGED <<EmailWhitelist, nextId>>
  /\ served' = served + 1
  /\ UNCHANGED <<Token, User>>
  /\ UNCHANGED hook

(* ------------------------ the registration gate ------------------------ *)
\* res.status(status).json({message}) of a middleware or a controller.
Answer(c, status, msg) ==
  [Return(c, status < 400, msg) EXCEPT !.http = status, !.password = 0]

\* Variant: private-beta mode is looked at before the invite.
GateResult_BetaFirst(c) ==
  IF isEnabled(c.env.PRIVATE_BETA_MODE) THEN Answer(c, 403, MsgInvitationOnly)
  ELSE IF c.invite # NoInvite THEN [c EXCEPT !.pc = "done", !.next = TRUE]
  ELSE IF isEnabled(c.env.ALLOW_REGISTRATION)
    THEN [c EXCEPT !.pc = "done", !.next = TRUE]
  ELSE Answer(c, 403, MsgRegistrationDisabled)

\* validateRegistration.js lines 5-25.
GateResult(c) ==
  IF c.invite # NoInvite THEN [c EXCEPT !.pc = "done", !.next = TRUE]
  ELSE IF isEnabled(c.env.PRIVATE_BETA_MODE)
    THEN Answer(c, 403, MsgInvitationOnly)
  ELSE IF isEnabled(c.env.ALLOW_REGISTRATION)
    THEN [c EXCEPT !.pc = "done", !.next = TRUE]
  ELSE Answer(c, 403, MsgRegistrationDisabled)

\* A registration request reaches the gate, with or without req.invite, under
\* some setting of the two environment variables.
validateRegistration(p) ==
  /\ Free(p)
  /\ \E invite \in {NoInvite, TokenRecord(1, <<97, 64, 120, 46, 99>>, MaxTime)},
        beta \in EnvValues, allow \in EnvValues :
       calls' = [calls EXCEPT ![p] =
         GateResult([IdleCall EXCEPT
           !.op = "register", !.invite = invite,
           !.env = [PRIVATE_BETA_MODE |-> beta, ALLOW_REGISTRATION |-> allow]])]
  /\ UNCHANGED <<EmailWhitelist, nextId>>
  /\ served' = served + 1
  /\ UNCHANGED <<Token, User>>
  /\ UNCHANGED hook

(* --------------------- invitation and activation ----------------------- *)
\* POST /api/admin/invite.  The token issued is the one no earlier call was
\* given; its record expires 24 hours after it was created, at some time of
\* the window.  When createUser or sendEmail throws, what was stored before
\* stays.
inviteUser(p) ==
  /\ Free(p)
  /\ \E role \in Roles, email \in InviteEmails, expiresAt \in Times,
        configured \in BOOLEAN,
        fault \in {"none", "createToken", "createUser", "sendEmail"} :
       LET c == [IdleCall EXCEPT !.op = "invite", !.role = role, !.email = email]
           token == served + 1
           stored == fault # "createToken"
           created == fault \notin {"createToken", "createUser"}
       IN
       IF ~requireAdmin(role)
       THEN /\ calls' = [calls EXCEPT ![p] = Forbidden("invite", role)]
            /\ UNCHANGED <<Token, User>>
       ELSE IF email = << >>
       THEN /\ calls' = [calls EXCEPT ![p] = Answer(c, 400, "Email is required")]
            /\ UNCHANGED <<Token, User>>
       ELSE IF ~configured
       THEN /\ calls' = [calls EXCEPT ![p] = Answer(c, 500,
                 "Email service is not configured. Cannot send invitations.")]
            /\ UNCHANGED <<Token, User>>
       ELSE IF email \in DOMAIN User
       THEN /\ calls' = [calls EXCEPT ![p] = Answer(c, 409, "User with this email already exists")]
            /\ UNCHANGED <<Token, User>>
       ELSE
         /\ Token' = IF stored
                       THEN Token \cup {TokenRecord(token, email, expiresAt)}
                       ELSE Token
         /\ User' = IF created
                      THEN [e \in DOMAIN User \cup {email} |->
                              IF e = email
                              THEN [status |-> "pending", password |-> NoPassword]
                              ELSE User[e]]
                      ELSE User
         /\ calls' = [calls EXCEPT ![p] =
              IF fault = "createToken"
                THEN [Answer(c, 500, "Failed to create invitation") EXCEPT !.err = "StoreError"]
              ELSE IF fault = "none"
                THEN [Answer(c, 201, "Invitation sent successfully") EXCEPT !.token = token]
              ELSE [Answer(c, 500, "Failed to send invitation") EXCEPT !.err = "StoreError"]]
  /\ UNCHANGED <<EmailWhitelist, nextId>>
  /\ served' = served + 1
  /\ UNCHANGED hook

\* Times the activation flow can read from the clock: not before a time
\* another request has already read.
ActivationClock == {t \in Times : \A q \in Procs : calls[q].at <= t}

\* Variant: tokens never expire.
IsExpired_Never(invite, currentTime) == FALSE

\* part_008 line 54: invite.expiresAt && currentTime > invite.expiresAt
IsExpired(invite, currentTime) ==
  invite.expiresAt # NullDate /\ currentTime > invite.expiresAt

\* POST set-password, checkActivationToken up to the answer of getInvite
\* (part_008 lines 35-50).  getInvite turns a failing lookup into the same
\* answer as a missing record.
checkActivationToken(p) ==
  /\ Free(p)
  /\ \E token \in PresentedTokens, email \in RawEmails, password \in Passwords,
        fault \in BOOLEAN :
       LET c == [IdleCall EXCEPT !.op = "activate", !.token = token,
                                 !.email = email, !.password = password]
           found == findToken(hashToken(token), email)
       IN calls' = [calls EXCEPT ![p] =
            IF token = NoToken \/ email = << >>
              THEN Answer(c, 400, "Token and email are required for account activation")
            ELSE IF fault \/ found = {}
              THEN Answer(c, 400, MsgInvalidToken)
            ELSE [c EXCEPT !.pc = "getInvite", !.invite = CHOOSE t \in found : TRUE]]
  /\ UNCHANGED <<EmailWhitelist, nextId, Token, User>>
  /\ served' = served + 1
  /\ UNCHANGED hook

\* part_008 lines 53-63 and, after next(), part_009 lines 14-30: the expiry
\* check with the deletion of an expired token, the password check and the
\* lookup of the pending user.
checkActivationToken_next(p) ==
  /\ calls[p].pc = "getInvite"
  /\ \E currentTime \in ActivationClock, fault \in BOOLEAN :
       LET c == [calls[p] EXCEPT !.at = currentTime] IN
       IF IsExpired(c.invite, currentTime)
       THEN IF fault
            THEN /\ calls' = [calls EXCEPT ![p] =
                      [Answer(c, 500, "Failed to validate activation token") EXCEPT !.err = "StoreError"]]
                 /\ UNCHANGED Token
            ELSE /\ calls' = [calls EXCEPT ![p] = Answer(c, 400, MsgTokenExpired)]
                 /\ Token' = deleteTokens(c.invite.token)
       ELSE
         /\ UNCHANGED Token
         /\ LET n == [c EXCEPT !.next = TRUE] IN
            calls' = [calls EXCEPT ![p] =
              IF n.password < MinPasswordLength
                THEN Answer(n, 400, "Password must be at least 8 characters long")
              ELSE IF fault
                THEN [Answer(n, 500, "Failed to activate account") EXCEPT !.err = "StoreError"]
              ELSE IF n.email \notin DOMAIN User \/ User[n.email].status # "pending"
                THEN Answer(n, 404, "Pending user account not found")
              ELSE [n EXCEPT !.pc = "updateUser"]]
  /\ UNCHANGED <<EmailWhitelist, nextId, served, User>>
  /\ UNCHANGED hook

\* part_009 lines 33-48: updateUser(user._id, {password, status: 'active',
\* emailVerified: true}), a findByIdAndUpdate of the user found before.
setPasswordController_updateUser(p) ==
  /\ calls[p].pc = "updateUser"
  /\ \E fault \in BOOLEAN :
       IF fault
       THEN /\ calls' = [calls EXCEPT ![p] =
                 [Answer(calls[p], 500, "Failed to activate account") EXCEPT !.err = "StoreError"]]
            /\ UNCHANGED User
       ELSE /\ calls' = [calls EXCEPT ![p].pc = "deleteTokens"]
            /\ User' = [User EXCEPT ![calls[p].email] =
                 [status |-> "active", password |-> hashSync(calls[p].password)]]
  /\ UNCHANGED <<EmailWhitelist, nextId, served, Token>>
  /\ UNCHANGED hook

\* part_009 lines 51-65: deleteTokens({token: invite.token}), then the
\* updated user is read, the session is opened and 200 is answered.
setPasswordController_deleteTokens(p) ==
  /\ calls[p].pc = "deleteTokens"
  /\ \E fault \in {"none", "deleteTokens", "setAuthTokens"} :
       /\ Token' = IF fault = "deleteTokens" THEN Token
                     ELSE deleteTokens(calls[p].invite.token)
       /\ calls' = [calls EXCEPT ![p] =
            IF fault = "none" THEN Answer(calls[p], 200, MsgActivated)
            ELSE [Answer(calls[p], 500, "Failed to activate account") EXCEPT !.err = "StoreError"]]
  /\ UNCHANGED <<EmailWhitelist, nextId, served, User>>
  /\ UNCHANGED hook

\* The route handler answers the request with the call's result.
Respond(p) ==
  /\ calls[p].pc = "done"
  /\ calls' = [calls EXCEPT ![p] = IdleCall]
  /\ UNCHANGED <<EmailWhitelist, nextId, served>>
  /\ UNCHANGED <<Token, User>>
  /\ UNCHANGED hook

Next ==
  \/ \E p \in Procs : isEmailWhitelisted(p)
  \/ \E p \in Procs : requestEmailWhitelist(p)
  \/ \E p \in Procs : requestEmailWhitelist_saveNew(p)
  \/ \E p \in Procs : requestEmailWhitelist_saveExisting(p)
  \/ \E p \in Procs : reviewEmailWhitelistRequest(p)
  \/ \E p \in Procs : reviewEmailWhitelistRequest_save(p)
  \/ \E p \in Procs : sendInvitationEmail(p)
  \/ \E p \in Procs : deleteEmailWhitelistRequest(p)
  \/ \E p \in Procs : getEmailWhitelistRequests(p)
  \/ \E p \in Procs : postRequestWhitelist(p)
  \/ \E p \in Procs : Respond(p)

Spec == Init /\ [][Next]_vars

(* --------------------- the list endpoint at scale ---------------------- *)
\* The collection after n submits of distinct addresses (001@x.c, 002@x.c,
\* ...) at the times 1..n, of which two in three were reviewed since.
Seeded(n) ==
  LET SeedEmail(i) ==
        <<48 + (i \div 100), 48 + ((i \div 10) % 10), 48 + (i % 10), 64, 120, 46, 99>>
      SeedStatus(i) ==
        IF i % 3 = 1 THEN "pending" ELSE IF i % 3 = 2 THEN "approved" ELSE "rejected"
  IN [i \in 1..n |->
       [email |-> SeedEmail(i), status |-> SeedStatus(i), requestedAt |-> i,
        reviewedAt |-> IF SeedStatus(i) = "pending" THEN NullDate ELSE i + 1,
        reviewedBy |-> IF SeedStatus(i) = "pending" THEN NoAdmin ELSE "admin1",
        reason |-> 0, notes |-> 0]]

ListInit ==
  /\ \E n \in {0, 3, MaxStored} : EmailWhitelist = Seeded(n) /\ nextId = n + 1
  /\ calls = [p \in Procs |-> IdleCall]
  /\ served = 0
  /\ Token = {}
  /\ User = << >>
  /\ HookInit

ListNext ==
  \/ \E p \in Procs : getEmailWhitelistRequests(p)
  \/ \E p \in Procs : Respond(p)

ListSpec == ListInit /\ [][ListNext]_vars

(* ----------------------- the hook useMCPLoading ------------------------ *)
\* The hook runs in the browser; the server's state is no part of it.
server == <<EmailWhitelist, nextId, calls, served, Token, User>>

\* The tool keys the hook is called with, and the errorMessage argument of
\* stopLoading: absent ("") or given.
ToolKeys == {"k1", "k2"}
ErrorMessages == {"", "boom"}

\* Map.set and Map.delete on a copy of the map.
MapSet(m, k, v) == [x \in DOMAIN m \cup {k} |-> IF x = k THEN v ELSE m[x]]
MapDelete(m, k) == [x \in DOMAIN m \ {k} |-> m[x]]

\* Lines 27-31: the state startLoading stores (serverName and toolName are
\* carried along unchanged and left out).
NewLoadingState(t) == [timestamp |-> t, isError |-> FALSE, errorMessage |-> ""]

\* {...currentState, isError: true, errorMessage}
ErrorState(state, msg) == [state EXCEPT !.isError = TRUE, !.errorMessage = msg]

\* setTimeout(callback, delay): the timer the browser keeps until it fires
\* or is cleared.  Timer ids are never reused.
Timer(id, key, kind, delay) ==
  [id |-> id, key |-> key, kind |-> kind, due |-> now + delay]

\* clearTimeout(timeoutRefs.current.get(toolKey)): the timers left.
ClearTimeout(key) ==
  IF key \in DOMAIN timeoutRefs
    THEN {tm \in timers : tm.id # timeoutRefs[key]}
    ELSE timers

\* Lines 24-52.
startLoading(key) ==
  /\ hookCalls < MaxHookCalls
  /\ loadingStates' = MapSet(loadingStates, key, NewLoadingState(now))
  /\ timers' = timers \cup {Timer(hookCalls + 1, key, "timeout", TimeoutMs)}
  /\ timeoutRefs' = MapSet(timeoutRefs, key, hookCalls + 1)
  /\ hookCalls' = hookCalls + 1
  /\ UNCHANGED now
  /\ UNCHANGED server

\* Lines 54-86.
stopLoading(key, isError, errorMessage) ==
  /\ hookCalls < MaxHookCalls
  /\ timeoutRefs' = MapDelete(timeoutRefs, key)
  /\ IF isError
       THEN IF key \in DOMAIN loadingStates
              THEN /\ loadingStates' =
                        MapSet(loadingStates, key,
                               ErrorState(loadingStates[key],
                                          IF errorMessage = "" THEN "Request failed"
                                                               ELSE errorMessage))
                   /\ timers' = ClearTimeout(key)
                                  \cup {Timer(hookCalls + 1, key, "remove", RemoveMs)}
              ELSE /\ UNCHANGED loadingStates
                   /\ timers' = ClearTimeout(key)
       ELSE /\ loadingStates' = MapDelete(loadingStates, key)
            /\ timers' = ClearTimeout(key)
  /\ hookCalls' = hookCalls + 1
  /\ UNCHANGED now
  /\ UNCHANGED server

\* Lines 97-105.
clearAll ==
  /\ hookCalls < MaxHookCalls
  /\ timers' = {tm \in timers : \A k \in DOMAIN timeoutRefs : timeoutRefs[k] # tm.id}
  /\ timeoutRefs' = << >>
  /\ loadingStates' = << >>
  /\ hookCalls' = hookCalls + 1
  /\ UNCHANGED now
  /\ UNCHANGED server

\* The timer the browser runs next: one that is due, the earliest first.
Due(tm) ==
  /\ tm \in timers
  /\ tm.due <= now
  /\ \A other \in timers :
       other.due > tm.due \/ (other.due = tm.due /\ other.id >= tm.id)

\* Lines 36-49: the callback of the 60 second timer.
onTimeout ==
  \E tm \in timers :
    /\ Due(tm) /\ tm.kind = "timeout"
    /\ loadingStates' =
         IF tm.key \in DOMAIN loadingStates
           THEN MapSet(loadingStates, tm.key,
                       ErrorState(loadingStates[tm.key], "Request timeout"))
           ELSE loadingStates
    /\ timers' = timers \ {tm}
    /\ UNCHANGED <<timeoutRefs, now, hookCalls>>
    /\ UNCHANGED server

\* Lines 73-79: the callback of the 3 second timer.
onRemove ==
  \E tm \in timers :
    /\ Due(tm) /\ tm.kind = "remove"
    /\ loadingStates' = MapDelete(loadingStates, tm.key)
    /\ timers' = timers \ {tm}
    /\ UNCHANGED <<timeoutRefs, now, hookCalls>>
    /\ UNCHANGED server

\* Time passes, by the shorter delay at a time, once the timers that are due
\* have run.
Advance ==
  /\ \A tm \in timers : tm.due > now
  /\ now + RemoveMs <= MaxTicks * RemoveMs
  /\ now' = now + RemoveMs
  /\ UNCHANGED <<loadingStates, timeoutRefs, timers, hookCalls>>
  /\ UNCHANGED server

LoadingNext ==
  \/ \E key \in ToolKeys : startLoading(key)
  \/ \E key \in ToolKeys, isError \in BOOLEAN, errorMessage \in ErrorMessages :
       stopLoading(key, isError, errorMessage)
  \/ clearAll
  \/ onTimeout
  \/ onRemove
  \/ Advance

LoadingSpec == Init /\ [][LoadingNext]_vars

(* ------------- the public endpoint, with and without account ----------- *)
\* The collection holds no entry or one entry for a@x.c in some status, and
\* the user collection holds an active account for a@x.c or none.
SubmitInit ==
  /\ \E status \in {"none", "pending", "approved", "rejected"} :
       /\ EmailWhitelist =
            IF status = "none" THEN << >>
            ELSE << [NewEntry(<<97, 64, 120, 46, 99>>, 0, 1) EXCEPT
                      !.status = status,
                      !.reviewedAt = IF status = "pending" THEN NullDate ELSE 1,
                      !.reviewedBy = IF status = "pending" THEN NoAdmin ELSE "admin1"] >>
       /\ nextId = Len(EmailWhitelist) + 1
  /\ calls = [p \in Procs |-> IdleCall]
  /\ served = 0
  /\ Token = {}
  /\ \E account \in BOOLEAN :
       User = IF account
                THEN [e \in { <<97, 64, 120, 46, 99>> } |->
                       [status |-> "active", password |-> hashSync(8)]]
                ELSE << >>
  /\ HookInit

SubmitNext ==
  \/ \E p \in Procs : postRequestWhitelist(p)
  \/ \E p \in Procs : requestEmailWhitelist(p)
  \/ \E p \in Procs : requestEmailWhitelist_saveNew(p)
  \/ \E p \in Procs : requestEmailWhitelist_saveExisting(p)
  \/ \E p \in Procs : Respond(p)

SubmitSpec == SubmitInit /\ [][SubmitNext]_vars

(* ------------------------ the social-login gate ------------------------ *)
\* part_008 lines 15-22: with a user email that isEmailWhitelisted refuses
\* the request is redirected to the login page; otherwise next() is called.
CheckEmailWhitelistedResult(c, fault) ==
  IF c.email # << >> /\ ~IsEmailWhitelistedResult(c.email, fault)
    THEN [c EXCEPT !.pc = "done", !.http = 302, !.message = RedirectNotWhitelisted,
                   !.err = IF fault THEN "StoreError" ELSE "none"]
  ELSE [c EXCEPT !.pc = "done", !.next = TRUE]

\* checkEmailWhitelisted(req, res, next) for a request whose user has the
\* email, or none, with the store read of isEmailWhitelisted throwing or not.
checkEmailWhitelisted(p) ==
  /\ Free(p)
  /\ \E email \in RawEmails :
       \E fault \in (IF IsInvalidEmailArg(email) THEN {FALSE} ELSE BOOLEAN) :
         calls' = [calls EXCEPT ![p] =
           CheckEmailWhitelistedResult(
             [IdleCall EXCEPT !.op = "social", !.email = email], fault)]
  /\ served' = served + 1
  /\ UNCHANGED <<EmailWhitelist, nextId, Token, User>>
  /\ UNCHANGED hook

\* Social logins arriving while whitelist requests are submitted, over
\* stores that hold an entry of each status.
SocialNext ==
  \/ \E p \in Procs : checkEmailWhitelisted(p)
  \/ \E p \in Procs : requestEmailWhitelist(p)
  \/ \E p \in Procs : requestEmailWhitelist_saveNew(p)
  \/ \E p \in Procs : requestEmailWhitelist_saveExisting(p)
  \/ \E p \in Procs : Respond(p)

SocialSpec == SubmitInit /\ [][SocialNext]_vars

(* ------------------------- the gate on its own ------------------------- *)
GateNext ==
  \/ \E p \in Procs : validateRegistration(p)
  \/ \E p \in Procs : Respond(p)

GateSpec == Init /\ [][GateNext]_vars

(* --------------------- invitation and activation ----------------------- *)
ActivationNext ==
  \/ \E p \in Procs : inviteUser(p)
  \/ \E p \in Procs : checkActivationToken(p)
  \/ \E p \in Procs : checkActivationToken_next(p)
  \/ \E p \in Procs : setPasswordController_updateUser(p)
  \/ \E p \in Procs : setPasswordController_deleteTokens(p)
  \/ \E p \in Procs : Respond(p)

ActivationSpec == Init /\ [][ActivationNext]_vars

(* ------------------------------ properties ----------------------------- *)
\* The handler p starts a call of operation op in this step.
Starts(p, op) == calls[p].pc = "idle" /\ calls'[p].op = op

\* The entries whose email is the normalized form of a raw address.
EntriesFor(email) ==
  {i \in DOMAIN EmailWhitelist : EmailWhitelist[i].email = normalizedEmail(email)}

\* C1: in every reachable state of the store, concurrent submits included,
\* at most one entry exists per normalized (lower-cased, trimmed) email.
C1_Uniqueness ==
  \A i, j \in DOMAIN EmailWhitelist :
    normalizedEmail(EmailWhitelist[i].email) = normalizedEmail(EmailWhitelist[j].email) => i = j

\* Two submits raced for one address: the loser hit the unique index while
\* the winner's entry is in the store.
C1_Witness ==
  \E p \in Procs :
    /\ calls[p].err = "E11000"
    /\ EntriesFor(calls[p].email) # {}

\* C2: the status of an entry changes only by create->pending,
\* pending->approved, pending->rejected or rejected->pending, under every
\* interleaving of concurrent calls.
AllowedTransitions ==
  { <<"pending", "approved">>, <<"pending", "rejected">>, <<"rejected", "pending">> }

C2_StateMachineClosure ==
  [][ /\ \A i \in DOMAIN EmailWhitelist \cap DOMAIN EmailWhitelist' :
           \/ EmailWhitelist'[i].status = EmailWhitelist[i].status
           \/ <<EmailWhitelist[i].status, EmailWhitelist'[i].status>> \in AllowedTransitions
      /\ \A i \in DOMAIN EmailWhitelist' \ DOMAIN EmailWhitelist : EmailWhitelist'[i].status = "pending"
    ]_vars

\* C3: the submit that loses the race for a new address has the unique-index
\* violation converted into the 'already pending' / 'already approved' result.
C3_DuplicateConverted ==
  \A p \in Procs :
    calls[p].op = "submit" /\ calls[p].err = "E11000"
      => calls[p].message \in {MsgAlreadyPending, MsgAlreadyApproved}

\* C4: for every entry, status = pending iff reviewedAt = null iff
\* reviewedBy = null.
C4_PendingIffUnreviewed ==
  \A i \in DOMAIN EmailWhitelist :
    /\ (EmailWhitelist[i].status = "pending") <=> (EmailWhitelist[i].reviewedAt = NullDate)
    /\ (EmailWhitelist[i].reviewedAt = NullDate) <=> (EmailWhitelist[i].reviewedBy = NoAdmin)

\* A rejected entry was resubmitted: it is pending again with its review
\* fields cleared, after a review had set them.
C4_Witness ==
  \E p \in Procs :
    /\ calls[p].op = "submit" /\ calls[p].message = MsgResubmitted
    /\ calls[p].id \in DOMAIN EmailWhitelist
    /\ EmailWhitelist[calls[p].id].status = "pending"
    /\ EmailWhitelist[calls[p].id].reviewedAt = NullDate

\* C5: isEmailWhitelisted(e) returns true iff the store holds an entry whose
\* email is e lower-cased and trimmed and whose status is approved, false for
\* unknown emails and for pending and rejected entries (the store read having
\* returned; the read that throws is C6).
C5_GateCorrect ==
  [][ \A p \in Procs :
        Starts(p, "check") /\ calls'[p].err = "none"
          => /\ calls'[p].pc = "done"
             /\ calls'[p].success
                  <=> \E i \in EntriesFor(calls'[p].email) : EmailWhitelist[i].status = "approved"
             /\ (\E i \in DOMAIN EmailWhitelist :
                    /\ EmailWhitelist[i].email = <<97, 64, 120, 46, 99>>
                    /\ EmailWhitelist[i].status = "approved")
                  /\ calls'[p].email = <<65, 64, 88, 46, 67, 32>>
                  => calls'[p].success
    ]_vars

\* The gate answered true for "A@X.C " against the approved entry a@x.c.
C5_Witness ==
  \E p \in Procs :
    /\ calls[p].op = "check" /\ calls[p].pc = "done" /\ calls[p].success
    /\ calls[p].email = <<65, 64, 88, 46, 67, 32>>
    /\ \E i \in DOMAIN EmailWhitelist :
         EmailWhitelist[i].email = <<97, 64, 120, 46, 99>> /\ EmailWhitelist[i].status = "approved"

\* C6: if the store read inside isEmailWhitelisted throws, the function
\* returns false and does not propagate the error.
C6_FailClosed ==
  \A p \in Procs :
    calls[p].op = "check" /\ calls[p].err # "none"
      => calls[p].pc = "done" /\ ~calls[p].success

\* The read threw while the address was approved in the store.
C6_Witness ==
  \E p \in Procs :
    /\ calls[p].op = "check" /\ calls[p].err = "StoreError"
    /\ \E i \in EntriesFor(calls[p].email) : EmailWhitelist[i].status = "approved"

\* C7: a review of a request that an earlier review already decided returns
\* the 'already reviewed' failure and leaves status, reviewedAt, reviewedBy
\* and notes as the first review set them.
C7_ReviewOnce ==
  [][ \A p \in Procs :
        /\ Starts(p, "review")
        /\ calls'[p].id \in DOMAIN EmailWhitelist
        /\ EmailWhitelist[calls'[p].id].status # "pending"
        => /\ calls'[p].pc = "done"
           /\ ~calls'[p].success
           /\ EmailWhitelist' = EmailWhitelist
           /\ \/ calls'[p].message = MsgAlreadyReviewed
              \/ calls'[p].message = MsgInvalidAction
              \/ calls'[p].err = "StoreError"
    ]_vars

\* The second review was refused and the entry carries the first reviewer.
C7_Witness ==
  \E p \in Procs :
    /\ calls[p].op = "review" /\ calls[p].message = MsgAlreadyReviewed
    /\ calls[p].id \in DOMAIN EmailWhitelist
    /\ EmailWhitelist[calls[p].id].reviewedBy \in Admins \ {adminUserId(p)}

\* C8: for an approved entry, every submit for its email fails with 'already
\* approved' and every review of it fails, and neither changes the entry.
C8_ApprovedIsFinal ==
  [][ \A p \in Procs :
        /\ (Starts(p, "submit")
              /\ (\E i \in EntriesFor(calls'[p].email) : EmailWhitelist[i].status = "approved")
            => /\ calls'[p].pc = "done"
               /\ ~calls'[p].success
               /\ EmailWhitelist' = EmailWhitelist
               /\ calls'[p].message = MsgAlreadyApproved \/ calls'[p].err = "StoreError")
        /\ (Starts(p, "review")
              /\ calls'[p].id \in DOMAIN EmailWhitelist
              /\ EmailWhitelist[calls'[p].id].status = "approved"
            => /\ calls'[p].pc = "done"
               /\ ~calls'[p].success
               /\ EmailWhitelist' = EmailWhitelist)
    ]_vars

\* A submit was refused as already approved while the entry is approved.
C8_Witness ==
  \E p \in Procs :
    /\ calls[p].op = "submit" /\ calls[p].message = MsgAlreadyApproved
    /\ \E i \in EntriesFor(calls[p].email) : EmailWhitelist[i].status = "approved"

InviteFailed(c) ==
  c.op = "review" /\ c.pc = "done" /\ c.invited /\ (~c.tokenStored \/ ~c.mailSent)

C10_ApprovalSurvivesInviteFailure ==
  [][ \A p \in Procs :
        /\ (calls[p].pc = "invite" /\ InviteFailed(calls'[p])
            => calls'[p].success /\ EmailWhitelist' = EmailWhitelist)
        /\ (calls[p].pc = "save" /\ calls'[p].pc = "invite"
            => EmailWhitelist'[calls[p].id].status = "approved")
        /\ \A q \in Procs :
             /\ InviteFailed(calls[q])
             /\ calls[q].id \in DOMAIN EmailWhitelist
             /\ EmailWhitelist[calls[q].id].status = "approved"
             /\ Starts(p, "check") /\ calls'[p].err = "none"
             /\ normalizedEmail(calls'[p].email) = EmailWhitelist[calls[q].id].email
             => calls'[p].success
    ]_vars

\* The invitation of an approval failed, the review returned success, the
\* entry is approved and the gate then answered true.
C10_Witness ==
  \E p, q \in Procs :
    /\ InviteFailed(calls[q]) /\ calls[q].success
    /\ calls[q].id \in DOMAIN EmailWhitelist
    /\ EmailWhitelist[calls[q].id].status = "approved"
    /\ calls[p].op = "check" /\ calls[p].success
    /\ normalizedEmail(calls[p].email) = EmailWhitelist[calls[q].id].email

\* C11: when invitation issuance or email dispatch fails during an approval,
\* the review's result is success = true and its message does not state that
\* the invitation email was sent.
C11_FailureIsCaveat ==
  \A p \in Procs :
    InviteFailed(calls[p])
      => calls[p].success /\ calls[p].message # MsgApprovedInvited

\* C12: for every value of the limit query parameter (larger than 100, zero,
\* negative or non-numeric included) the number of entries the list endpoint
\* returns in one response is at most 100.
C12_AtMostPageSizeCap ==
  \A p \in Procs :
    calls[p].op = "list" => Len(calls[p].requests) <= PageSizeCap

\* C13: the registration gate decides in this order: a request that carries
\* an invite is passed on; otherwise, with private-beta mode enabled, it is
\* answered 403; otherwise, with open registration enabled, it is passed on;
\* otherwise it is answered 403.  So a request with an invite is passed on
\* under every setting of the two flags.
C13_GateOrder ==
  \A p \in Procs :
    calls[p].op = "register" /\ calls[p].pc = "done" =>
      LET c == calls[p]
          beta == isEnabled(c.env.PRIVATE_BETA_MODE)
          allow == isEnabled(c.env.ALLOW_REGISTRATION)
          denied == ~c.next /\ c.http = 403 /\ ~c.success
          passed == c.next /\ c.http = 0
      IN /\ c.invite # NoInvite => passed
         /\ c.invite = NoInvite /\ beta => denied /\ c.message = MsgInvitationOnly
         /\ c.invite = NoInvite /\ ~beta /\ allow => passed
         /\ c.invite = NoInvite /\ ~beta /\ ~allow =>
              denied /\ c.message = MsgRegistrationDisabled

\* An invited request passed on although private-beta mode is on (spelled
\* " True") and open registration is off, next to an uninvited one refused
\* under the same flags.
C13_Witness ==
  \E p, q \in Procs :
    /\ calls[p].op = "register" /\ calls[p].pc = "done"
    /\ calls[p].invite # NoInvite /\ calls[p].next
    /\ calls[p].env.PRIVATE_BETA_MODE = <<32, 84, 114, 117, 101>>
    /\ calls[p].env.ALLOW_REGISTRATION = <<102, 97, 108, 115, 101>>
    /\ calls[q].op = "register" /\ calls[q].pc = "done"
    /\ calls[q].invite = NoInvite /\ calls[q].env = calls[p].env
    /\ calls[q].http = 403 /\ ~calls[q].next

\* C14: token validation lets an activation request proceed (req.invite set,
\* next called) only if a token record was found for the hash of the presented
\* token, its bound email equals the presented email, and the current time is
\* not after its expiresAt; when the token is expired the request is rejected
\* and, unless the store fails, the token record is deleted.
C14_TokenValidation ==
  [][\A p \in Procs :
       /\ Starts(p, "activate") /\ calls'[p].pc = "getInvite" =>
            /\ calls'[p].invite \in Token
            /\ calls'[p].invite.token = hashToken(calls'[p].token)
            /\ calls'[p].invite.email = calls'[p].email
       /\ calls'[p].op = "activate" /\ calls'[p].next /\ ~calls[p].next =>
            /\ calls[p].pc = "getInvite"
            /\ calls'[p].invite = calls[p].invite
            /\ calls'[p].invite.token = hashToken(calls'[p].token)
            /\ calls'[p].invite.email = calls'[p].email
            /\ calls'[p].at <= calls'[p].invite.expiresAt
       /\ calls[p].pc = "getInvite" /\ calls'[p].pc # "getInvite"
           /\ calls'[p].at > calls[p].invite.expiresAt =>
            /\ ~calls'[p].next /\ calls'[p].pc = "done" /\ ~calls'[p].success
            /\ calls'[p].http >= 400
            /\ calls'[p].err = "none" =>
                 /\ calls'[p].message = MsgTokenExpired
                 /\ \A t \in Token' : t.token # calls[p].invite.token
                 /\ Token' = Token \ {calls[p].invite}
  ]_vars

\* One request has been let through with a token that had not expired when
\* it was checked; another, presenting the same token later, has been refused
\* as expired, and the record is gone.
C14_Witness ==
  \E p, q \in Procs :
    /\ calls[p].op = "activate" /\ calls[p].next /\ calls[p].pc = "updateUser"
    /\ calls[p].invite.token = hashToken(calls[p].token)
    /\ calls[q].op = "activate" /\ calls[q].pc = "done"
    /\ calls[q].token = calls[p].token /\ calls[q].at > calls[p].at
    /\ calls[q].message = MsgTokenExpired /\ calls[q].http = 400
    /\ Token = {}

\* C15: invitation tokens are single-use: of the set-password requests that
\* present the same token, concurrent ones included, at most one is answered
\* with a successful activation.
C15_SingleUse ==
  \A p, q \in Procs :
    /\ p # q
    /\ calls[p].op = "activate" /\ calls[p].pc = "done" /\ calls[p].http = 200
    /\ calls[q].op = "activate" /\ calls[q].pc = "done" /\ calls[q].http = 200
    => calls[p].token # calls[q].token

\* C16: unless the store fails, an admin's delete succeeds exactly when an
\* entry with that id exists, and it removes that entry, whatever its status,
\* and no other; once an approved entry is deleted, isEmailWhitelisted
\* answers false for its address in every spelling.
C16_DeleteAnyStatus ==
  [][\A p \in Procs :
       Starts(p, "delete") /\ calls'[p].role = "ADMIN" /\ calls'[p].err = "none" =>
         LET id == calls'[p].id IN
         /\ calls'[p].pc = "done"
         /\ calls'[p].success <=> id \in DOMAIN EmailWhitelist
         /\ id \notin DOMAIN EmailWhitelist =>
              /\ EmailWhitelist' = EmailWhitelist
              /\ RouteStatus(calls'[p]) = 404
         /\ id \in DOMAIN EmailWhitelist =>
              /\ DOMAIN EmailWhitelist' = DOMAIN EmailWhitelist \ {id}
              /\ \A i \in DOMAIN EmailWhitelist' : EmailWhitelist'[i] = EmailWhitelist[i]
              /\ RouteStatus(calls'[p]) = 200
              /\ EmailWhitelist[id].status = "approved" =>
                   \A raw \in RawEmails :
                     normalizedEmail(raw) = EmailWhitelist[id].email =>
                       ~IsEmailWhitelistedResult(raw, FALSE)'
  ]_vars

\* An entry that one request approved has been deleted by another, and the
\* gate no longer lets its address through.
C16_Witness ==
  \E p, q \in Procs :
    /\ calls[p].op = "delete" /\ calls[p].pc = "done" /\ calls[p].success
    /\ calls[q].op = "review" /\ calls[q].pc = "done" /\ calls[q].success
    /\ calls[q].message = MsgApproved
    /\ calls[q].id = calls[p].id
    /\ calls[p].id \notin DOMAIN EmailWhitelist
    /\ ~IsEmailWhitelistedResult(<<97, 64, 120, 46, 99>>, FALSE)

\* The response of a route as its caller sees it.
Response(c) == <<RouteStatus(c), c.success, c.message>>

C18_ValidationNoMutation ==
  [][\A p \in Procs :
       LET refused == /\ calls'[p].pc = "done" /\ ~calls'[p].success
                      /\ RouteStatus(calls'[p]) = 400
                      /\ ~calls'[p].invited /\ ~calls'[p].mailSent
                      /\ EmailWhitelist' = EmailWhitelist /\ nextId' = nextId
       IN
       /\ Starts(p, "validate") => refused
       /\ Starts(p, "submit") /\ IsInvalidEmailArg(calls'[p].email) => refused
       /\ Starts(p, "review") /\ calls'[p].message = MsgInvalidAction => refused
       /\ calls[p].pc \in {"insert", "resave"} /\ calls'[p] # calls[p]
           /\ calls[p].doc.reason > ReasonMaxLen => refused
       /\ calls[p].pc = "save" /\ calls'[p] # calls[p]
           /\ calls[p].doc.notes > NotesMaxLen => refused
  ]_vars

\* A review with over-long notes has been refused and the entry it was about
\* is still pending.
C18_Witness ==
  \E p \in Procs :
    /\ calls[p].op = "review" /\ calls[p].pc = "done"
    /\ calls[p].err = "ValidationError" /\ ~calls[p].success
    /\ calls[p].id \in DOMAIN EmailWhitelist
    /\ EmailWhitelist[calls[p].id].status = "pending"
    /\ EmailWhitelist[calls[p].id].notes = 0

\* C19: a submit, review or delete during which the store raised an
\* unexpected error is answered with a status of 500 or above.
C19_StoreErrorIs5xx ==
  \A p \in Procs :
    /\ calls[p].op \in {"submit", "review", "delete"}
    /\ calls[p].pc = "done" /\ calls[p].err = "StoreError"
    => RouteStatus(calls[p]) >= 500

\* C20: a list, review or delete request of a caller whose role is not ADMIN
\* is answered 403 at once: the store is as before, the answer carries no
\* entries, and the call is over without having reached the invitation.
C20_AdminOnly ==
  [][\A p \in Procs :
       (\E op \in {"list", "review", "delete"} : Starts(p, op))
         /\ calls'[p].role # "ADMIN" =>
           /\ calls'[p].pc = "done"
           /\ RouteStatus(calls'[p]) = 403 /\ ~calls'[p].success
           /\ calls'[p].message = MsgAdminRequired
           /\ calls'[p].requests = << >> /\ calls'[p].total = 0
           /\ ~calls'[p].invited /\ ~calls'[p].tokenStored /\ ~calls'[p].mailSent
           /\ EmailWhitelist' = EmailWhitelist /\ nextId' = nextId
           /\ Token' = Token /\ User' = User
  ]_vars

\* A caller of role USER was refused the deletion of a pending entry, which
\* is still there.
C20_Witness ==
  \E p \in Procs :
    /\ calls[p].op = "delete" /\ calls[p].role = "USER" /\ calls[p].http = 403
    /\ \E i \in DOMAIN EmailWhitelist : EmailWhitelist[i].status = "pending"

\* The answers the submit endpoint can give to a request, told from the
\* request, the step the call is at, and the whitelist collection alone.
SubmitAnswers(c, email, W) ==
  LET found == {i \in DOMAIN W : W[i].email = normalizedEmail(email)}
      failed == <<400, FALSE, MsgSubmitFailed>>
  IN IF c.pc = "insert" THEN {<<200, TRUE, MsgSubmitted>>, failed}
     ELSE IF c.pc = "resave" THEN {<<200, TRUE, MsgResubmitted>>, failed}
     ELSE IF email = << >> THEN {<<400, FALSE, MsgEmailRequired>>,
                                 <<400, FALSE, MsgInvalidEmail>>}
     ELSE {failed}
          \cup (IF EmailRegexTest(email) THEN {} ELSE {<<400, FALSE, MsgEmailFormat>>})
          \cup {<<400, FALSE, MsgAlreadyApproved>> : i \in {j \in found : W[j].status = "approved"}}
          \cup {<<400, FALSE, MsgAlreadyPending>> : i \in {j \in found : W[j].status = "pending"}}

\* C21: the answer of the public submit endpoint (status code, success flag,
\* message) is one the request and the whitelist collection allow, whether
\* or not the user collection holds an account for the address; and the
\* endpoint goes on to save under the same conditions in both cases.
C21_SubmitIgnoresUsers ==
  [][\A p \in Procs :
       calls'[p] # calls[p] /\ calls'[p].op \in {"submit", "validate"} =>
         LET email == calls'[p].email
             found == {i \in DOMAIN EmailWhitelist :
                         EmailWhitelist[i].email = normalizedEmail(email)}
         IN
         /\ calls'[p].pc = "done" =>
              Response(calls'[p]) \in SubmitAnswers(calls[p], email, EmailWhitelist)
         /\ calls'[p].pc = "insert" => found = {} /\ email # << >>
         /\ calls'[p].pc = "resave" =>
              \E i \in found : EmailWhitelist[i].status = "rejected"
         /\ calls'[p].op = "validate" => email = << >> \/ ~EmailRegexTest(email)
         /\ User' = User
  ]_vars

\* A request for a@x.c was accepted as a new request although an account
\* with that address exists.
C21_Witness ==
  \E p \in Procs :
    /\ <<97, 64, 120, 46, 99>> \in DOMAIN User
    /\ calls[p].op = "submit" /\ calls[p].pc = "done"
    /\ calls[p].email = <<97, 64, 120, 46, 99>>
    /\ Response(calls[p]) = <<200, TRUE, MsgSubmitted>>

\* C22: when the 60 second timer of a key that was started and not stopped
\* since runs, 60 seconds after that startLoading, the key is in
\* loadingStates afterwards, in error with the message 'Request timeout'; and
\* the entry of such a key stays in that state while the hook is not called.
C22_TimeoutMarksError ==
  [][/\ \A tm \in timers :
          /\ tm \notin timers' /\ hookCalls' = hookCalls
          /\ tm.kind = "timeout"
          /\ tm.key \in DOMAIN timeoutRefs /\ timeoutRefs[tm.key] = tm.id
          => /\ now = tm.due
             /\ tm.key \in DOMAIN loadingStates'
             /\ loadingStates'[tm.key].isError
             /\ loadingStates'[tm.key].errorMessage = "Request timeout"
     /\ \A key \in DOMAIN loadingStates :
          /\ loadingStates[key].errorMessage = "Request timeout"
          /\ key \in DOMAIN timeoutRefs
          /\ hookCalls' = hookCalls
          => key \in DOMAIN loadingStates' /\ loadingStates'[key] = loadingStates[key]
  ]_vars

\* C23: from startLoading(key) until the next stopLoading(key) or clearAll,
\* that is while timeoutRefs holds the key, the key is in loadingStates,
\* whatever calls for the key came before.
C23_VisibleUntilStopped ==
  \A key \in DOMAIN timeoutRefs : key \in DOMAIN loadingStates

\* C30: an entry of loadingStates is marked 'Request timeout' only when 60
\* seconds have passed since its timestamp, the time of the most recent
\* startLoading of its key.
C30_NoStaleTimer ==
  \A key \in DOMAIN loadingStates :
    loadingStates[key].errorMessage = "Request timeout"
      => now - loadingStates[key].timestamp >= TimeoutMs

C27_SentLinkHasToken ==
  \A p \in Procs :
    calls[p].op = "review" /\ calls[p].mailSent =>
      \E t \in Token : t.token = hashToken(calls[p].token)

\* The documents a list request with the given status parameter is about:
\* those of that status for one of the three statuses, all of them otherwise.
Matching(status) ==
  { i \in DOMAIN EmailWhitelist :
      status \in {"pending", "approved", "rejected"} => EmailWhitelist[i].status = status }

\* requests is the page of the matching documents at the positions
\* (page-1)*limit+1 .. page*limit of the order by requestedAt descending.
IsPageOf(requests, status, page, limit) ==
  \A M \in {Matching(status)} :
  LET first == (page - 1) * limit
      last == IF page * limit < Cardinality(M) THEN page * limit ELSE Cardinality(M)
      Newer(i) == Cardinality({ j \in M :
                     EmailWhitelist[j].requestedAt > EmailWhitelist[i].requestedAt })
      NotOlder(i) == Cardinality({ j \in M :
                     EmailWhitelist[j].requestedAt >= EmailWhitelist[i].requestedAt })
  IN /\ Len(requests) = IF last > first THEN last - first ELSE 0
     /\ Cardinality({ requests[k] : k \in 1..Len(requests) }) = Len(requests)
     /\ \A k \in 1..Len(requests) :
          /\ requests[k] \in M
          /\ Newer(requests[k]) <= first + k - 1
          /\ NotOlder(requests[k]) >= first + k

\* C25: a list request of an administrator with page >= 1 and limit in
\* 1..100 is answered with the entries of the requested status at the
\* positions (page-1)*limit+1 .. page*limit of the order by requestedAt
\* descending, and with the number of entries of that status as total; a
\* status parameter that is unset or not one of the three statuses filters
\* nothing.
C25_PageOfStatus ==
  \A sorted \in {SortDesc(DOMAIN EmailWhitelist)} :
  \A f \in RouteFilters :
    ~f.page.nan /\ ~f.limit.nan /\ f.page.v >= 1 /\ f.limit.v \in 1..PageSizeCap =>
      \A r \in {ListResult("ADMIN", sorted, f)} :
         /\ r.success /\ r.pc = "done"
         /\ r.total = Cardinality(Matching(f.status))
         /\ IsPageOf(r.requests, f.status, f.page.v, f.limit.v)

\* An administrator was answered with the second page of two of the pending
\* entries, out of more than four.
C25_Witness ==
  \E p \in Procs :
    /\ calls[p].op = "list" /\ calls[p].success /\ calls[p].role = "ADMIN"
    /\ calls[p].total > 4 /\ calls[p].total = Cardinality(Matching("pending"))
    /\ calls[p].total < Cardinality(DOMAIN EmailWhitelist)
    /\ Len(calls[p].requests) = 2
    /\ IsPageOf(calls[p].requests, "pending", 2, 2)

\* C26: of the review calls that loaded the same pending request only one
\* succeeds: a review whose save() succeeds finds the stored request still
\* pending, as it loaded it, and leaves its own status, reviewedBy and notes
\* in the store.
C26_OneReviewWins ==
  [][\A p \in Procs :
       LET c == calls[p]
           d == calls'[p]
       IN c.op = "review" /\ c.pc = "save" /\ (d.pc = "invite" \/ d.success) =>
            /\ c.id \in DOMAIN EmailWhitelist
            /\ EmailWhitelist[c.id].status = "pending"
            /\ EmailWhitelist'[c.id].status = c.doc.status
            /\ EmailWhitelist'[c.id].reviewedBy = c.doc.reviewedBy
            /\ EmailWhitelist'[c.id].notes = c.doc.notes
  ]_vars

\* C28: the activation changes a user record only if the user is pending at
\* the time of the update and the request passed checkActivationToken with
\* a token bound to the same email; the password and the status of a user
\* that is already active are never changed.
C28_OnlyPendingActivated ==
  [][\A email \in DOMAIN User :
       User'[email] # User[email] =>
         /\ User[email].status = "pending"
         /\ \E p \in Procs :
              /\ calls[p].op = "activate" /\ calls[p].pc = "updateUser"
              /\ calls[p].email = email /\ calls[p].next
              /\ calls[p].invite.email = email
              /\ calls[p].invite.token = hashToken(calls[p].token)
  ]_vars

\* C29: checkEmailWhitelisted calls next() only if the email of the
\* request's user is approved in the store; in every other case it
\* redirects to /login?error=email_not_whitelisted and does not call next().
C29_NextOnlyIfApproved ==
  [][\A p \in Procs :
       Starts(p, "social") =>
         LET d == calls'[p]
             approved == \E i \in DOMAIN EmailWhitelist :
                           /\ EmailWhitelist[i].email = normalizedEmail(d.email)
                           /\ EmailWhitelist[i].status = "approved"
         IN /\ d.next => approved /\ d.err = "none"
            /\ ~d.next => d.http = 302 /\ d.message = RedirectNotWhitelisted
  ]_vars
====
